---- MODULE Spec2Model ----
(***************************************************************************)
(* NFSv3 record decoders of rust/src/nfs/nfs3_records.rs.                  *)
(*                                                                         *)
(* A buffer is a sequence of bytes.  A decoder maps a buffer to an IResult *)
(* (nom 4): Ok(remainder, value), Err(Incomplete(needed)) or               *)
(* Err(Error(kind)).  The value of a do_parse! decoder is modelled as the  *)
(* record of ALL its bindings, the discarded ones (_fill_bytes, _cookie,   *)
(* _attributes ...) included, so that the place where each field starts    *)
(* can be observed.                                                        *)
(*                                                                         *)
(* Bytes of generated buffers are < 128, hence every decoded 32-bit word   *)
(* is < 2^31 and no arithmetic below leaves the u32 range.                 *)
(***************************************************************************)
EXTENDS Integers, Sequences, FiniteSets, TLC

VARIABLES gen, input, complete, called, result

vars == <<gen, input, complete, called, result>>

----------------------------------------------------------------------------
(* Bounds of the model *)

MaxHandleLen == 2
MaxNameLen == 5
MaxCount == 5
MaxTrail == 2
MaxEntries == 4
MaxFlag == 3

(* Program constants *)

ATTR_LEN == 84
COOKIE_LEN == 8

----------------------------------------------------------------------------
(* Sequences of bytes *)

Prefix(s, n) == SubSeq(s, 1, n)
Drop(s, n) == SubSeq(s, n + 1, Len(s))
Min(a, b) == IF a <= b THEN a ELSE b

----------------------------------------------------------------------------
(* IResult and Option *)

Ok(i, o) == [tag |-> "Ok", rem |-> i, val |-> o]
Incomplete(n) == [tag |-> "Incomplete", rem |-> <<>>, val |-> n]
Error(i, kind) == [tag |-> "Error", rem |-> i, val |-> kind]

Some(x) == [some |-> TRUE, v |-> x]
None == [some |-> FALSE]

----------------------------------------------------------------------------
(* nom 4 primitives, on &[u8] input (streaming: a short buffer is Incomplete) *)

be_u32(i) ==
    IF Len(i) < 4 THEN Incomplete(4)
    ELSE Ok(Drop(i, 4), i[1] * 16777216 + i[2] * 65536 + i[3] * 256 + i[4])

(* The 64-bit value is kept as its two 32-bit halves <<high, low>>. *)
be_u64(i) ==
    IF Len(i) < 8 THEN Incomplete(8)
    ELSE Ok(Drop(i, 8), <<be_u32(i).val, be_u32(Drop(i, 4)).val>>)

take(i, n) ==
    IF Len(i) < n THEN Incomplete(n)
    ELSE Ok(Drop(i, n), Prefix(i, n))

rest(i) == Ok(<<>>, i)

(* Mutant of verify_le: the decoded word is never checked. *)
verify_le_unchecked(i, max) == be_u32(i)

(* verify!(i, be_u32, |v| v <= max) *)
verify_le(i, max) ==
    LET r == be_u32(i) IN
    IF r.tag # "Ok" THEN r
    ELSE IF r.val <= max THEN r ELSE Error(i, "Verify")

(* cond!(i, c, child): r is the child's result on i.  nom 4's cond! turns a *)
(* recoverable Err(Error) of the child into Ok((i, None)); Incomplete and  *)
(* Failure pass through.                                                   *)
cond(i, c, r) ==
    IF c
    THEN IF r.tag = "Ok" THEN Ok(r.rem, Some(r.val))
         ELSE IF r.tag = "Error" THEN Ok(i, None)
         ELSE r
    ELSE Ok(i, None)

(* complete!(i, child): Incomplete becomes Err(Error(Complete)). *)
complete_(i, r) ==
    IF r.tag = "Incomplete" THEN Error(i, "Complete") ELSE r

(* Mutant of fill_bytes_cond: 4 - name_len % 4 bytes are skipped even when *)
(* the name length is a multiple of 4.                                     *)
fill_bytes_always(i, name_len) ==
    cond(i, TRUE, take(i, 4 - (name_len % 4)))

(* cond!(name_len % 4 != 0, take!(4 - name_len % 4)) *)
fill_bytes_cond(i, name_len) ==
    cond(i, name_len % 4 # 0, take(i, 4 - (name_len % 4)))

----------------------------------------------------------------------------
(* The decoders *)

(* Mutant of parse_nfs3_handle: a body shorter than the declared length is *)
(* accepted (under-reading).                                               *)
parse_nfs3_handle_short(i) ==
    LET r1 == be_u32(i) IN
    IF r1.tag # "Ok" THEN r1 ELSE
    LET obj_len == r1.val
        r2 == take(r1.rem, Min(obj_len, Len(r1.rem))) IN
    Ok(r2.rem, [len |-> obj_len, value |-> r2.val])

parse_nfs3_handle(i) ==
    LET r1 == be_u32(i) IN
    IF r1.tag # "Ok" THEN r1 ELSE
    LET obj_len == r1.val
        r2 == take(r1.rem, obj_len) IN
    IF r2.tag # "Ok" THEN r2 ELSE
    Ok(r2.rem, [len |-> obj_len, value |-> r2.val])

(* Mutant of parse_nfs3_response_create: the handle is decoded whenever    *)
(* the flag passed its check.                                              *)
parse_nfs3_response_create_always(i) ==
    LET r1 == be_u32(i) IN
    IF r1.tag # "Ok" THEN r1 ELSE
    LET r2 == verify_le(r1.rem, 1) IN
    IF r2.tag # "Ok" THEN r2 ELSE
    LET r3 == cond(r2.rem, TRUE, parse_nfs3_handle(r2.rem)) IN
    IF r3.tag # "Ok" THEN r3 ELSE
    Ok(r3.rem, [status |-> r1.val, handle |-> r3.val])

parse_nfs3_response_create(i) ==
    LET r1 == be_u32(i) IN
    IF r1.tag # "Ok" THEN r1 ELSE
    LET r2 == verify_le(r1.rem, 1) IN
    IF r2.tag # "Ok" THEN r2 ELSE
    LET handle_has_value == r2.val
        r3 == cond(r2.rem, handle_has_value = 1, parse_nfs3_handle(r2.rem)) IN
    IF r3.tag # "Ok" THEN r3 ELSE
    Ok(r3.rem, [status |-> r1.val, handle |-> r3.val])

parse_nfs3_request_create(i) ==
    LET r1 == parse_nfs3_handle(i) IN
    IF r1.tag # "Ok" THEN r1 ELSE
    LET r2 == be_u32(r1.rem) IN
    IF r2.tag # "Ok" THEN r2 ELSE
    LET name_len == r2.val
        r3 == take(r2.rem, name_len) IN
    IF r3.tag # "Ok" THEN r3 ELSE
    LET r4 == be_u32(r3.rem) IN
    IF r4.tag # "Ok" THEN r4 ELSE
    LET r5 == rest(r4.rem) IN
    Ok(r5.rem, [handle |-> r1.val, name_len |-> name_len,
                create_mode |-> r4.val, verifier |-> r5.val,
                name_vec |-> r3.val])

parse_nfs3_request_rmdir(i) ==
    LET r1 == parse_nfs3_handle(i) IN
    IF r1.tag # "Ok" THEN r1 ELSE
    LET r2 == be_u32(r1.rem) IN
    IF r2.tag # "Ok" THEN r2 ELSE
    LET name_len == r2.val
        r3 == take(r2.rem, name_len) IN
    IF r3.tag # "Ok" THEN r3 ELSE
    LET r4 == fill_bytes_cond(r3.rem, name_len) IN
    IF r4.tag # "Ok" THEN r4 ELSE
    Ok(r4.rem, [handle |-> r1.val, name_len |-> name_len,
                name_vec |-> r3.val, _fill_bytes |-> r4.val])

parse_nfs3_request_mkdir(i) ==
    LET r1 == parse_nfs3_handle(i) IN
    IF r1.tag # "Ok" THEN r1 ELSE
    LET r2 == be_u32(r1.rem) IN
    IF r2.tag # "Ok" THEN r2 ELSE
    LET name_len == r2.val
        r3 == take(r2.rem, name_len) IN
    IF r3.tag # "Ok" THEN r3 ELSE
    LET r4 == fill_bytes_cond(r3.rem, name_len) IN
    IF r4.tag # "Ok" THEN r4 ELSE
    LET r5 == rest(r4.rem) IN
    Ok(r5.rem, [handle |-> r1.val, name_len |-> name_len,
                name_vec |-> r3.val, _fill_bytes |-> r4.val,
                _attributes |-> r5.val])

parse_nfs3_request_rename(i) ==
    LET r1 == parse_nfs3_handle(i) IN
    IF r1.tag # "Ok" THEN r1 ELSE
    LET r2 == be_u32(r1.rem) IN
    IF r2.tag # "Ok" THEN r2 ELSE
    LET from_name_len == r2.val
        r3 == take(r2.rem, from_name_len) IN
    IF r3.tag # "Ok" THEN r3 ELSE
    LET r4 == fill_bytes_cond(r3.rem, from_name_len) IN
    IF r4.tag # "Ok" THEN r4 ELSE
    LET r5 == parse_nfs3_handle(r4.rem) IN
    IF r5.tag # "Ok" THEN r5 ELSE
    LET r6 == be_u32(r5.rem) IN
    IF r6.tag # "Ok" THEN r6 ELSE
    LET to_name_len == r6.val
        r7 == take(r6.rem, to_name_len) IN
    IF r7.tag # "Ok" THEN r7 ELSE
    LET r8 == rest(r7.rem) IN
    Ok(r8.rem, [from_handle |-> r1.val, name_len |-> from_name_len,
                from_name_vec |-> r3.val, _from_fill_bytes |-> r4.val,
                to_handle |-> r5.val, to_name_len |-> to_name_len,
                to_name_vec |-> r7.val, _to_fill_bytes |-> r8.val])

parse_nfs3_response_readdirplus_entry(i) ==
    LET r1 == be_u64(i) IN
    IF r1.tag # "Ok" THEN r1 ELSE
    LET r2 == be_u32(r1.rem) IN
    IF r2.tag # "Ok" THEN r2 ELSE
    LET name_len == r2.val
        r3 == take(r2.rem, name_len) IN
    IF r3.tag # "Ok" THEN r3 ELSE
    LET r4 == fill_bytes_cond(r3.rem, name_len) IN
    IF r4.tag # "Ok" THEN r4 ELSE
    LET r5 == take(r4.rem, COOKIE_LEN) IN
    IF r5.tag # "Ok" THEN r5 ELSE
    LET r6 == verify_le(r5.rem, 1) IN
    IF r6.tag # "Ok" THEN r6 ELSE
    LET attr_value_follows == r6.val
        r7 == cond(r6.rem, attr_value_follows = 1, take(r6.rem, ATTR_LEN)) IN
    IF r7.tag # "Ok" THEN r7 ELSE
    LET r8 == verify_le(r7.rem, 1) IN
    IF r8.tag # "Ok" THEN r8 ELSE
    LET handle_value_follows == r8.val
        r9 == cond(r8.rem, handle_value_follows = 1, parse_nfs3_handle(r8.rem)) IN
    IF r9.tag # "Ok" THEN r9 ELSE
    Ok(r9.rem, [name_len |-> name_len, name_vec |-> r3.val,
                _fill_bytes |-> r4.val, _cookie |-> r5.val,
                _attr |-> r7.val, handle |-> r9.val])

parse_nfs3_response_readdirplus_entry_cond(i) ==
    LET r1 == verify_le(i, 1) IN
    IF r1.tag # "Ok" THEN r1 ELSE
    LET value_follows == r1.val
        r2 == cond(r1.rem, value_follows = 1,
                   parse_nfs3_response_readdirplus_entry(r1.rem)) IN
    IF r2.tag # "Ok" THEN r2 ELSE
    Ok(r2.rem, [entry |-> r2.val])

(* many0!(input, complete!(parse_nfs3_response_readdirplus_entry_cond)):    *)
(* the loop of nom 4's many0!, res being the Vec built so far.             *)
RECURSIVE many0_loop(_, _)
many0_loop(i, res) ==
    LET r == complete_(i, parse_nfs3_response_readdirplus_entry_cond(i)) IN
    IF r.tag = "Ok"
    THEN IF r.rem = i THEN Error(i, "Many0")
         ELSE many0_loop(r.rem, Append(res, r.val))
    ELSE IF r.tag = "Error" THEN Ok(i, res)
    ELSE r

many0_nfs3_response_readdirplus_entries(i) == many0_loop(i, <<>>)

(* Mutant of parse_nfs3_data_complete: the padding is not skipped. *)
parse_nfs3_data_complete_no_fill(i, file_len, fill_bytes) ==
    LET r1 == take(i, file_len) IN
    IF r1.tag # "Ok" THEN r1 ELSE
    Ok(r1.rem, r1.val)

parse_nfs3_data_complete(i, file_len, fill_bytes) ==
    LET r1 == take(i, file_len) IN
    IF r1.tag # "Ok" THEN r1 ELSE
    LET r2 == cond(r1.rem, fill_bytes > 0, take(r1.rem, fill_bytes)) IN
    IF r2.tag # "Ok" THEN r2 ELSE
    Ok(r2.rem, r1.val)

(* Mutant of parse_nfs3_data_partial: all the padding is required. *)
parse_nfs3_data_partial_no_min(i, file_len, fill_bytes) ==
    LET r1 == take(i, file_len) IN
    IF r1.tag # "Ok" THEN r1 ELSE
    LET r2 == cond(r1.rem, fill_bytes > 0, take(r1.rem, fill_bytes)) IN
    IF r2.tag # "Ok" THEN r2 ELSE
    Ok(r2.rem, r1.val)

parse_nfs3_data_partial(i, file_len, fill_bytes) ==
    LET r1 == take(i, file_len) IN
    IF r1.tag # "Ok" THEN r1 ELSE
    LET fill == Min(fill_bytes, Len(r1.rem))
        r2 == cond(r1.rem, fill > 0, take(r1.rem, fill)) IN
    IF r2.tag # "Ok" THEN r2 ELSE
    Ok(r2.rem, r1.val)

(* let fill_bytes = if len % 4 != 0 { 4 - len % 4 } else { 0 } *)
fill_bytes_of(len) == IF len % 4 # 0 THEN 4 - (len % 4) ELSE 0

(* Mutant of parse_nfs3_data: a fragment shorter than the declared length  *)
(* is not given the take-the-rest fallback.                                *)
parse_nfs3_data_no_rest(i, cmpl, len) ==
    IF cmpl THEN parse_nfs3_data_complete(i, len, fill_bytes_of(len))
    ELSE parse_nfs3_data_partial(i, len, fill_bytes_of(len))

(* The choice of the extraction strategy, shared by WRITE and READ. *)
parse_nfs3_data(i, cmpl, len) ==
    IF cmpl THEN parse_nfs3_data_complete(i, len, fill_bytes_of(len))
    ELSE IF Len(i) >= len THEN parse_nfs3_data_partial(i, len, fill_bytes_of(len))
    ELSE rest(i)

parse_nfs3_request_write(i, cmpl) ==
    LET r1 == parse_nfs3_handle(i) IN
    IF r1.tag # "Ok" THEN r1 ELSE
    LET r2 == be_u64(r1.rem) IN
    IF r2.tag # "Ok" THEN r2 ELSE
    LET r3 == be_u32(r2.rem) IN
    IF r3.tag # "Ok" THEN r3 ELSE
    LET count == r3.val
        r4 == verify_le(r3.rem, 2) IN
    IF r4.tag # "Ok" THEN r4 ELSE
    LET r5 == verify_le(r4.rem, count) IN
    IF r5.tag # "Ok" THEN r5 ELSE
    LET file_len == r5.val
        r6 == parse_nfs3_data(r5.rem, cmpl, file_len) IN
    IF r6.tag # "Ok" THEN r6 ELSE
    Ok(r6.rem, [handle |-> r1.val, offset |-> r2.val, count |-> count,
                stable |-> r4.val, file_len |-> file_len,
                file_data |-> r6.val])

parse_nfs3_reply_read(i, cmpl) ==
    LET r1 == be_u32(i) IN
    IF r1.tag # "Ok" THEN r1 ELSE
    LET r2 == verify_le(r1.rem, 1) IN
    IF r2.tag # "Ok" THEN r2 ELSE
    LET r3 == take(r2.rem, ATTR_LEN) IN
    IF r3.tag # "Ok" THEN r3 ELSE
    LET r4 == be_u32(r3.rem) IN
    IF r4.tag # "Ok" THEN r4 ELSE
    LET count == r4.val
        r5 == verify_le(r4.rem, 1) IN
    IF r5.tag # "Ok" THEN r5 ELSE
    LET r6 == verify_le(r5.rem, count) IN
    IF r6.tag # "Ok" THEN r6 ELSE
    LET data_len == r6.val
        r7 == parse_nfs3_data(r6.rem, cmpl, data_len) IN
    IF r7.tag # "Ok" THEN r7 ELSE
    Ok(r7.rem, [status |-> r1.val, attr_follows |-> r2.val,
                attr_blob |-> r3.val, count |-> count, eof |-> (r5.val # 0),
                data_len |-> data_len, data |-> r7.val])

----------------------------------------------------------------------------
(* The buffers handed to the decoders.  gen describes how the caller's      *)
(* buffer was laid out on the wire; input is the buffer itself.  Padding   *)
(* follows XDR: after a name or payload of length L come Pad(L) zero bytes. *)

be32(n) == << n \div 16777216, (n \div 65536) % 256, (n \div 256) % 256, n % 256 >>
Fill(n, base) == [k \in 1..n |-> base + k]
Zeros(n) == [k \in 1..n |-> 0]
Pad(L) == (4 - (L % 4)) % 4
Opaque(n, base) == be32(n) \o Fill(n, base)
Name(L) == be32(L) \o Fill(L, 96) \o Zeros(Pad(L))

FlagVals == 0..MaxFlag
HandleLens == (0..MaxHandleLen) \cup {16777216}

(* A handle: lenbytes bytes of the length word N, then M body bytes. *)
HandleGens ==
    { [kind |-> "handle", lenbytes |-> lb, N |-> n, M |-> m] :
        lb \in {4}, n \in HandleLens, m \in 0..(MaxHandleLen + MaxTrail) }
    \cup
    { [kind |-> "handle", lenbytes |-> lb, N |-> 1, M |-> 0] : lb \in 0..3 }

HandleBuf(g) == Prefix(be32(g.N), g.lenbytes) \o Fill(g.M, 16)

(* A CREATE reply: status, handle flag, then the bytes of a handle. *)
CreateReplyGens ==
    { [kind |-> "create_reply", status |-> st, flag |-> f, N |-> n, M |-> m] :
        st \in {0, 2}, f \in FlagVals \cup {256}, n \in HandleLens,
        m \in 0..(MaxHandleLen + MaxTrail) }

CreateReplyTail(g) == be32(g.N) \o Fill(g.M, 16)
CreateReplyBuf(g) == be32(g.status) \o be32(g.flag) \o CreateReplyTail(g)

(* A request with a directory handle and a padded name.  What follows the  *)
(* name is a word W, W bytes, a word L2 and T bytes: a create mode and     *)
(* verifier (CREATE), attributes (MKDIR), or the target handle and name    *)
(* (RENAME).  cut bytes are missing at the end.                            *)
NameReqGens ==
    { [kind |-> "name_req", H |-> h, L |-> l, W |-> w, L2 |-> l2, T |-> t, cut |-> c] :
        h \in {0, MaxHandleLen}, l \in 0..MaxNameLen, w \in 0..MaxHandleLen,
        l2 \in 0..MaxTrail, t \in 0..MaxTrail, c \in 0..MaxTrail }

NameReqAfterWord(g) == Fill(g.W, 16) \o be32(g.L2) \o Fill(g.T, 48)
NameReqTail(g) == be32(g.W) \o NameReqAfterWord(g)
NameReqFull(g) == Opaque(g.H, 16) \o Name(g.L) \o NameReqTail(g)
NameReqBuf(g) == Prefix(NameReqFull(g), Len(NameReqFull(g)) - g.cut)

(* One READDIRPLUS entry (without its continuation flag). *)
EntryBytes(L, af, hf, N) ==
    be32(0) \o be32(1) \o Name(L) \o Fill(COOKIE_LEN, 112)
    \o be32(af) \o (IF af = 1 THEN Fill(ATTR_LEN, 20) ELSE <<>>)
    \o be32(hf) \o (IF hf = 1 THEN Opaque(N, 16) ELSE <<>>)

EntryGens ==
    { [kind |-> "entry", L |-> l, af |-> a, hf |-> h, N |-> n, T |-> t, cut |-> c] :
        l \in 0..MaxNameLen, a \in FlagVals, h \in FlagVals,
        n \in {MaxHandleLen}, t \in 0..MaxTrail, c \in 0..MaxTrail }

EntryFull(g) == EntryBytes(g.L, g.af, g.hf, g.N) \o Fill(g.T, 120)
EntryBuf(g) == Prefix(EntryFull(g), Len(EntryFull(g)) - g.cut)

(* A READDIRPLUS entry list: a sequence of chunks, each a continuation     *)
(* flag and, when the flag is 1, an entry.                                  *)
ChunkKinds == {"end", "bad", "plain", "full", "badattr", "badhandle"}

ChunkBytes(c) ==
    CASE c = "end" -> be32(0)
      [] c = "bad" -> be32(2)
      [] c = "plain" -> be32(1) \o EntryBytes(1, 0, 0, 0)
      [] c = "full" -> be32(1) \o EntryBytes(4, 1, 1, MaxHandleLen)
      [] c = "badattr" -> be32(1) \o EntryBytes(2, 2, 0, 0)
      [] c = "badhandle" -> be32(1) \o EntryBytes(0, 0, 2, 0)

RECURSIVE ChunksBytes(_)
ChunksBytes(cs) ==
    IF cs = <<>> THEN <<>> ELSE ChunkBytes(Head(cs)) \o ChunksBytes(Tail(cs))

EntriesGens ==
    { [kind |-> "entries", chunks |-> cs, cut |-> c] :
        cs \in UNION { [1..n -> ChunkKinds] : n \in 0..MaxEntries }, c \in {0, 2} }

EntriesBuf(g) ==
    Prefix(ChunksBytes(g.chunks), Len(ChunksBytes(g.chunks)) - Min(g.cut, Len(ChunksBytes(g.chunks))))

(* A WRITE request: the preamble, then the first avail bytes of payload,   *)
(* padding and MaxTrail further bytes; or (short > 0) a preamble with its  *)
(* last short bytes missing.                                               *)
DataTail(len) == Fill(len, 48) \o Zeros(Pad(len)) \o Fill(MaxTrail, 120)

WritePre(g) ==
    Opaque(g.H, 16) \o be32(0) \o be32(9) \o be32(g.count) \o be32(g.stable) \o be32(g.flen)

WritePreLen(h) == 4 + h + 8 + 4 + 4 + 4

WriteGens ==
    { g \in [kind : {"write"}, H : {0, MaxHandleLen}, count : 0..MaxCount,
             stable : FlagVals, flen : 0..(MaxCount + 1),
             avail : 0..(MaxCount + 1 + 3 + MaxTrail), short : {0}] :
        g.avail <= g.flen + Pad(g.flen) + MaxTrail }
    \cup
    { [kind |-> "write", H |-> 0, count |-> c, stable |-> 0, flen |-> c,
       avail |-> 0, short |-> k] : c \in {MaxCount}, k \in 1..WritePreLen(0) }

WriteBuf(g) ==
    Prefix(WritePre(g) \o DataTail(g.flen), WritePreLen(g.H) - g.short + g.avail)

(* A READ reply, likewise. *)
ReadPre(g) ==
    be32(g.status) \o be32(g.af) \o Fill(ATTR_LEN, 20)
    \o be32(g.count) \o be32(g.eof) \o be32(g.flen)

ReadPreLen == 4 + 4 + ATTR_LEN + 4 + 4 + 4

ReadGens ==
    { g \in [kind : {"read"}, status : {0}, af : FlagVals, count : 0..MaxCount,
             eof : FlagVals, flen : 0..(MaxCount + 1),
             avail : 0..(MaxCount + 1 + 3 + MaxTrail), short : {0}] :
        g.avail <= g.flen + Pad(g.flen) + MaxTrail }
    \cup
    { [kind |-> "read", status |-> 0, af |-> 0, count |-> c, eof |-> 1, flen |-> c,
       avail |-> 0, short |-> k] : c \in {MaxCount}, k \in 1..ReadPreLen }

ReadBuf(g) ==
    Prefix(ReadPre(g) \o DataTail(g.flen), ReadPreLen - g.short + g.avail)

----------------------------------------------------------------------------
(* The state machine: a buffer arrives, the dispatcher calls the decoder   *)
(* of its procedure.                                                       *)

NoResult == [tag |-> "None", rem |-> <<>>, val |-> 0]

Start(g, buf) ==
    /\ gen = g
    /\ input = buf
    /\ complete = FALSE
    /\ called = "none"
    /\ result = NoResult

Init ==
    \/ \E g \in HandleGens : Start(g, HandleBuf(g))
    \/ \E g \in CreateReplyGens : Start(g, CreateReplyBuf(g))
    \/ \E g \in NameReqGens : Start(g, NameReqBuf(g))
    \/ \E g \in EntryGens : Start(g, EntryBuf(g))
    \/ \E g \in EntriesGens : Start(g, EntriesBuf(g))
    \/ \E g \in WriteGens : Start(g, WriteBuf(g))
    \/ \E g \in ReadGens : Start(g, ReadBuf(g))

Return(name, r) ==
    /\ called' = name
    /\ result' = r
    /\ UNCHANGED <<gen, input>>

Handle ==
    /\ gen.kind = "handle"
    /\ Return("parse_nfs3_handle", parse_nfs3_handle(input))
    /\ UNCHANGED complete

CreateReply ==
    /\ gen.kind = "create_reply"
    /\ Return("parse_nfs3_response_create", parse_nfs3_response_create(input))
    /\ UNCHANGED complete

CreateRequest ==
    /\ gen.kind = "name_req"
    /\ Return("parse_nfs3_request_create", parse_nfs3_request_create(input))
    /\ UNCHANGED complete

Rmdir ==
    /\ gen.kind = "name_req"
    /\ Return("parse_nfs3_request_rmdir", parse_nfs3_request_rmdir(input))
    /\ UNCHANGED complete

Mkdir ==
    /\ gen.kind = "name_req"
    /\ Return("parse_nfs3_request_mkdir", parse_nfs3_request_mkdir(input))
    /\ UNCHANGED complete

Rename ==
    /\ gen.kind = "name_req"
    /\ Return("parse_nfs3_request_rename", parse_nfs3_request_rename(input))
    /\ UNCHANGED complete

ReaddirplusEntry ==
    /\ gen.kind = "entry"
    /\ Return("parse_nfs3_response_readdirplus_entry",
              parse_nfs3_response_readdirplus_entry(input))
    /\ UNCHANGED complete

ReaddirplusEntries ==
    /\ gen.kind = "entries"
    /\ Return("many0_nfs3_response_readdirplus_entries",
              many0_nfs3_response_readdirplus_entries(input))
    /\ UNCHANGED complete

Write ==
    /\ gen.kind = "write"
    /\ \E c \in BOOLEAN :
        /\ complete' = c
        /\ Return("parse_nfs3_request_write", parse_nfs3_request_write(input, c))

Read ==
    /\ gen.kind = "read"
    /\ \E c \in BOOLEAN :
        /\ complete' = c
        /\ Return("parse_nfs3_reply_read", parse_nfs3_reply_read(input, c))

Next ==
    \/ Handle
    \/ CreateReply
    \/ CreateRequest
    \/ Rmdir
    \/ Mkdir
    \/ Rename
    \/ ReaddirplusEntry
    \/ ReaddirplusEntries
    \/ Write
    \/ Read

Spec == Init /\ [][Next]_vars

----------------------------------------------------------------------------
(* Vocabulary of the properties *)

IsOk == result.tag = "Ok"

DataCalled == called \in {"parse_nfs3_request_write", "parse_nfs3_reply_read"}

(* The payload and the declared data length of the returned record. *)
Payload ==
    IF called = "parse_nfs3_request_write" THEN result.val.file_data ELSE result.val.data
DeclaredLen ==
    IF called = "parse_nfs3_request_write" THEN result.val.file_len ELSE result.val.data_len

(* The whole preamble is in the buffer and passes its checks. *)
PreambleDecodes ==
    /\ gen.short = 0
    /\ gen.flen <= gen.count
    /\ IF gen.kind = "write" THEN gen.stable <= 2 ELSE (gen.af <= 1 /\ gen.eof <= 1)

(* The bytes of the buffer after the data-length field. *)
AfterPreamble == Prefix(DataTail(gen.flen), gen.avail)

(* C1: write/read with complete=false, preamble decodes, fewer bytes left  *)
(* than the declared data length: the call succeeds, the payload is all    *)
(* the bytes left after the preamble, the remainder is empty.              *)
C1_InsufficientTakesRest ==
    (DataCalled /\ ~complete /\ PreambleDecodes /\ gen.avail < gen.flen)
        => /\ IsOk
           /\ Payload = AfterPreamble
           /\ result.rem = <<>>

C1_Witness ==
    /\ called = "parse_nfs3_reply_read"
    /\ ~complete /\ PreambleDecodes
    /\ 0 < gen.avail /\ gen.avail < gen.flen
    /\ IsOk /\ Len(Payload) = gen.avail

(* C2: write/read with complete=true: exactly L data bytes and the padding *)
(* of L after the preamble give the L bytes as payload and an empty        *)
(* remainder; fewer than L plus padding bytes make the call fail.          *)
C2_CompleteExactOrFail ==
    (DataCalled /\ complete /\ PreambleDecodes)
        => /\ gen.avail = gen.flen + Pad(gen.flen)
                => (IsOk /\ Payload = Fill(gen.flen, 48) /\ result.rem = <<>>)
           /\ gen.avail < gen.flen + Pad(gen.flen) => ~IsOk

C2_Witness ==
    /\ called = "parse_nfs3_reply_read"
    /\ complete /\ PreambleDecodes
    /\ gen.flen > 0 /\ Pad(gen.flen) = 2 /\ gen.eof = 1
    /\ gen.avail = gen.flen + Pad(gen.flen)
    /\ IsOk /\ result.rem = <<>>

(* C8: write/read with complete=false and at least L bytes after the       *)
(* preamble: the call succeeds, the payload is the first L bytes, and      *)
(* min(padding, bytes left after the payload) bytes are skipped before the *)
(* remainder; with complete=true the same buffer fails when padding bytes  *)
(* are missing.                                                            *)
C8_PartialSkipsAvailablePadding ==
    /\ (DataCalled /\ ~complete /\ PreambleDecodes /\ gen.avail >= gen.flen)
        => /\ IsOk
           /\ Payload = Prefix(AfterPreamble, gen.flen)
           /\ result.rem =
                Drop(AfterPreamble,
                     gen.flen + Min(Pad(gen.flen), gen.avail - gen.flen))
    /\ (DataCalled /\ complete /\ PreambleDecodes /\ gen.avail >= gen.flen
            /\ gen.avail < gen.flen + Pad(gen.flen))
        => ~IsOk

C8_Witness ==
    /\ called = "parse_nfs3_request_write"
    /\ ~complete /\ PreambleDecodes
    /\ gen.avail > gen.flen /\ gen.avail < gen.flen + Pad(gen.flen)
    /\ IsOk /\ result.rem = <<>>

(* C10: WRITE fails when the stability word is > 2 or the data length is   *)
(* > the count; READ fails when the attribute-follows or eof flag is > 1   *)
(* or the data length is > the count; so a returned record has stable <= 2 *)
(* (WRITE), data length <= count and payload length <= data length.        *)
C10_PreambleConstraints ==
    /\ (called = "parse_nfs3_request_write"
            /\ (gen.stable > 2 \/ gen.flen > gen.count)) => ~IsOk
    /\ (called = "parse_nfs3_reply_read"
            /\ (gen.af > 1 \/ gen.eof > 1 \/ gen.flen > gen.count)) => ~IsOk
    /\ (DataCalled /\ IsOk)
        => /\ called = "parse_nfs3_request_write" => result.val.stable <= 2
           /\ DeclaredLen <= result.val.count
           /\ Len(Payload) <= DeclaredLen

C10_Witness ==
    /\ called = "parse_nfs3_request_write"
    /\ gen.stable > 2 /\ gen.flen <= gen.count /\ gen.avail > 0
    /\ result.tag = "Error" /\ result.val = "Verify"

(* C4: CREATE reply: the handle is present iff the flag is 1; with flag 0  *)
(* the call succeeds with no handle and the remainder is every byte after  *)
(* the flag; with a flag other than 0 and 1 the call fails with a          *)
(* verification error.                                                     *)
C4_CreateReplyFlag ==
    called = "parse_nfs3_response_create"
        => /\ IsOk => (result.val.handle.some <=> gen.flag = 1)
           /\ gen.flag = 0
                => (IsOk /\ ~result.val.handle.some
                         /\ result.rem = CreateReplyTail(gen))
           /\ gen.flag \notin {0, 1}
                => (result.tag = "Error" /\ result.val = "Verify")

C4_Witness ==
    /\ called = "parse_nfs3_response_create"
    /\ gen.flag = 0 /\ IsOk
    /\ ~result.val.handle.some /\ Len(result.rem) > 4

(* C5: parse_nfs3_handle succeeds iff the buffer holds a 4-byte length N   *)
(* and at least N more bytes; then len = N, value = the next N bytes and   *)
(* the remainder is the bytes after them (empty for an encoded handle);    *)
(* when N exceeds the bytes remaining the call fails.                      *)
C5_HandleRoundTrip ==
    called = "parse_nfs3_handle"
        => /\ IsOk <=> (gen.lenbytes = 4 /\ gen.N <= gen.M)
           /\ IsOk => /\ result.val.len = gen.N
                      /\ Len(result.val.value) = gen.N
                      /\ result.val.value = Prefix(Drop(input, 4), gen.N)
                      /\ result.val.value = Fill(gen.N, 16)
                      /\ result.rem = Drop(input, 4 + gen.N)
                      /\ gen.M = gen.N => result.rem = <<>>

C5_Witness ==
    /\ called = "parse_nfs3_handle"
    /\ gen.N = MaxHandleLen /\ gen.M = gen.N
    /\ IsOk /\ result.rem = <<>> /\ Len(result.val.value) = MaxHandleLen

(* The decoders that skip padding after a name. *)
PaddedNameCalled ==
    called \in {"parse_nfs3_request_rmdir", "parse_nfs3_request_mkdir",
                "parse_nfs3_request_rename", "parse_nfs3_response_readdirplus_entry"}

OptLen(o) == IF o.some THEN Len(o.v) ELSE 0

(* Bytes of the buffer before the name's length field. *)
BeforeName ==
    CASE called = "parse_nfs3_request_rename" -> 4 + result.val.from_handle.len
      [] called = "parse_nfs3_response_readdirplus_entry" -> 8
      [] OTHER -> 4 + result.val.handle.len

(* Bytes of the buffer from the start of the field after the name on. *)
FromNextField ==
    CASE called = "parse_nfs3_request_rmdir" -> Len(result.rem)
      [] called = "parse_nfs3_request_mkdir" -> Len(result.val._attributes)
      [] called = "parse_nfs3_request_rename" ->
            4 + result.val.to_handle.len + 4 + result.val.to_name_len
              + Len(result.val._to_fill_bytes)
      [] called = "parse_nfs3_response_readdirplus_entry" ->
            COOKIE_LEN + 4 + OptLen(result.val._attr) + 4
              + (IF result.val.handle.some THEN 4 + result.val.handle.v.len ELSE 0)
              + Len(result.rem)

NameFieldConsumed == Len(input) - BeforeName - FromNextField

SkippedPadding ==
    IF called = "parse_nfs3_request_rename"
    THEN OptLen(result.val._from_fill_bytes)
    ELSE OptLen(result.val._fill_bytes)

(* C6: in RMDIR, MKDIR, RENAME (source name) and a READDIRPLUS entry, the  *)
(* bytes consumed from the start of the name's length field to the start   *)
(* of the next field are 4 + L + ((4 - L % 4) % 4), a multiple of 4; the   *)
(* padding is 0 when L is a multiple of 4 and 1 to 3 otherwise.            *)
C6_PaddedNameConsumed ==
    (PaddedNameCalled /\ IsOk)
        => /\ result.val.name_len = gen.L
           /\ NameFieldConsumed = 4 + gen.L + ((4 - (gen.L % 4)) % 4)
           /\ NameFieldConsumed % 4 = 0
           /\ IF gen.L % 4 = 0 THEN SkippedPadding = 0
              ELSE SkippedPadding \in 1..3

C6_Witness ==
    /\ called = "parse_nfs3_request_rename"
    /\ IsOk /\ gen.L = MaxNameLen /\ gen.L % 4 # 0
    /\ result.val.to_handle.len = MaxHandleLen
    /\ NameFieldConsumed = 4 + gen.L + Pad(gen.L)

(* C7: CREATE request: create_mode is the big-endian word that starts      *)
(* 4 + L + ((4 - L % 4) % 4) bytes after the start of the name's length    *)
(* field, and the verifier is every byte after that word.                  *)
C7_CreateModeAfterPadding ==
    (called = "parse_nfs3_request_create" /\ gen.cut <= Len(NameReqAfterWord(gen)))
        => /\ IsOk
           /\ result.val.create_mode = gen.W
           /\ result.val.verifier =
                Prefix(NameReqAfterWord(gen), Len(NameReqAfterWord(gen)) - gen.cut)

(* Number of entries present in a decoded entry list. *)
RECURSIVE NumPresent(_)
NumPresent(v) ==
    IF v = <<>> THEN 0
    ELSE (IF Head(v).entry.some THEN 1 ELSE 0) + NumPresent(Tail(v))

GoodChunks == {"plain", "full"}

(* C3: an entry list [1][entry][1][entry][0] followed by further bytes     *)
(* decodes to exactly two entries, and the remainder is the bytes after    *)
(* the terminal flag.                                                      *)
C3_StopsAtTerminalFlag ==
    (/\ called = "many0_nfs3_response_readdirplus_entries"
     /\ gen.cut = 0 /\ Len(gen.chunks) >= 3
     /\ gen.chunks[1] \in GoodChunks /\ gen.chunks[2] \in GoodChunks
     /\ gen.chunks[3] = "end")
        => /\ IsOk
           /\ NumPresent(result.val) = 2
           /\ result.rem = ChunksBytes(SubSeq(gen.chunks, 4, Len(gen.chunks)))

(* The list starts with entries whose flags are all 0 or 1, and then comes *)
(* a chunk with a flag that is neither.                                    *)
BadFlagChunks == {"bad", "badattr", "badhandle"}

FirstBadFlag ==
    \E k \in 1..Len(gen.chunks) :
        /\ gen.chunks[k] \in BadFlagChunks
        /\ \A j \in 1..(k - 1) : gen.chunks[j] \in GoodChunks

(* C9: a gating flag that is not 0 or 1, met while decoding an entry list, *)
(* makes the entries decode call fail.                                     *)
C9_BadFlagFails ==
    (/\ called = "many0_nfs3_response_readdirplus_entries"
     /\ gen.cut = 0 /\ FirstBadFlag)
        => ~IsOk

====
